---- MODULE Spec2Model ----
(***************************************************************************)
(* Kiln Monitor: the per-kiln data-fetch coordinator                       *)
(* (custom_components/kiln_monitor/coordinator.py) and the entry setup     *)
(* (custom_components/kiln_monitor/__init__.py) as a state machine.        *)
(*                                                                         *)
(* One action is one stretch of code between two suspension points (an     *)
(* HTTP call or a backoff sleep): the action that takes an HTTP response   *)
(* runs the code up to the next request, the next sleep or the end of the  *)
(* tick.  The responses of the vendor API are the inputs.  The entities    *)
(* (custom_components/kiln_monitor/sensor.py) are functions of the         *)
(* coordinator's state; shown holds what the host last read from them.     *)
(***************************************************************************)
EXTENDS Integers, Sequences, FiniteSets, TLC

VARIABLES coord, hist, entry, shown

vars == <<coord, hist, entry, shown>>

(***************************************************************************)
(* Python values.                                                          *)
(***************************************************************************)
\* Python's None (the strings of the program are never "None")
None == "None"

\* truthiness as used by `if not self.token` / `if not self.kiln_id`
Falsy(v) == v \in {None, ""}

\* no exception raised
NoExc == "NoExc"

(***************************************************************************)
(* Bounds of the model.                                                    *)
(***************************************************************************)
\* a tick starts only while the failure counter is at most this
MaxFailures == 6

\* calls of async_setup_entry the host makes for one entry
MaxSetups == 3

\* the coordinators of Spec: one coordinator, constructed directly
CoordIds == {1}

(***************************************************************************)
(* Program constants.                                                      *)
(***************************************************************************)
max_retries == 3

retry_delay == 30

DEFAULT_UPDATE_INTERVAL == 5

\* the threshold of consecutive failures and the raised interval (minutes)
FailureThreshold == 5

RaisedInterval == 15

(***************************************************************************)
(* Inputs: responses of the vendor API.  status = TimedOut stands for the  *)
(* request raising asyncio.TimeoutError (timeout=30).                      *)
(***************************************************************************)
TimedOut == 0

\* values of "authentication_token" in a 200 login body (None: key missing)
TokenValues == {"abc", "xyz"}

LoginBodies == TokenValues \cup {None, ""}

LoginStatuses == {200, 401, 429, 503, TimedOut}

LoginResponses ==
    { [status |-> s, token |-> None] : s \in LoginStatuses \ {200} }
    \cup { [status |-> 200, token |-> t] : t \in LoginBodies }

\* elements of the settings list; a key that is missing is None here
KilnA == [kiln_id |-> "k1", serial_number |-> "sn1", name |-> "Glaze"]

KilnB == [kiln_id |-> "k2", serial_number |-> "sn2", name |-> None]

KilnNoId == [kiln_id |-> None, serial_number |-> "sn3", name |-> "Bisque"]

\* a JSON body: a list of items, or something that is not a list
List(items) == [is_list |-> TRUE, items |-> items]

NotAList == [is_list |-> FALSE, items |-> <<>>]

\* `isinstance(body, list) and body`
NonEmptyList(body) == body.is_list /\ body.items # <<>>

SettingsBodies ==
    {NotAList, List(<<>>), List(<<KilnA>>), List(<<KilnB, KilnA>>), List(<<KilnNoId>>)}

SettingsStatuses == {200, 401, 500, 503, TimedOut}

SettingsResponses ==
    { [status |-> s, body |-> NotAList] : s \in SettingsStatuses \ {200} }
    \cup { [status |-> 200, body |-> b] : b \in SettingsBodies }

(***************************************************************************)
(* JSON values as Python holds them: t is the type ("null", "num", "str",  *)
(* "dict"), v the text of a number or a string, d the items of a mapping.  *)
(* Results of float(), int() and str() have t "float", "int" and "str".    *)
(***************************************************************************)
NoItems == [k \in {} |-> ""]

PyValue(t, text) == [t |-> t, v |-> text, d |-> NoItems]

\* None where a JSON value or a converted value is expected
JNull == PyValue("null", "")

JNum(text) == PyValue("num", text)

JStr(text) == PyValue("str", text)

JDict(items) == [t |-> "dict", v |-> "", d |-> items]

\* the mapping {}
EmptyDict == JDict(NoItems)

\* the element of the data list of a kiln that is firing
SnapFiring ==
    JDict("list" :> JDict("temperature" :> JNum("1900") @@ "kilnStatus" :> JStr("Firing"))
          @@ "settings" :> JDict("firmwareVersion" :> JStr("2.1")
                                 @@ "numFirings" :> JNum("42")
                                 @@ "numZones" :> JNum("3")))

\* snapshots (elements of the data list)
Snapshots == {EmptyDict, SnapFiring}

DataBodies == {NotAList, List(<<>>), List(<<SnapFiring>>), List(<<EmptyDict, SnapFiring>>)}

DataStatuses == {200, 401, 404, 500, 503, TimedOut}

DataResponses ==
    { [status |-> s, body |-> NotAList] : s \in DataStatuses \ {200} }
    \cup { [status |-> 200, body |-> b] : b \in DataBodies }

\* poll intervals (minutes) the options flow can configure (5..60)
Intervals == {5, 20}

(***************************************************************************)
(* Strings: str.lower() and the `in` substring test.                       *)
(***************************************************************************)
UpperCase == "ABCDEFGHIJKLMNOPQRSTUVWXYZ"

LowerCase == "abcdefghijklmnopqrstuvwxyz"

LowerChar(ch) ==
    IF \E i \in 1..Len(UpperCase) : SubSeq(UpperCase, i, i) = ch
    THEN LET i == CHOOSE j \in 1..Len(UpperCase) : SubSeq(UpperCase, j, j) = ch
         IN  SubSeq(LowerCase, i, i)
    ELSE ch

RECURSIVE Lower(_)
Lower(s) ==
    IF s = "" THEN "" ELSE LowerChar(SubSeq(s, 1, 1)) \o Lower(SubSeq(s, 2, Len(s)))

Contains(s, sub) ==
    \E i \in 1..(Len(s) - Len(sub) + 1) : SubSeq(s, i, i + Len(sub) - 1) = sub

(***************************************************************************)
(* KilnDataCoordinator: one record per coordinator object.  pc is the      *)
(* position of its _async_update_data call: "idle" (no tick running),      *)
(* "login", "settings", "data" (the request that is in flight), "sleep"    *)
(* (in asyncio.sleep between two attempts).  data and last_update_success  *)
(* are the fields the DataUpdateCoordinator base class publishes.          *)
(***************************************************************************)
Max(a, b) == IF a >= b THEN a ELSE b

\* KilnDataCoordinator.__init__
Construct(update_interval_minutes) ==
    [ token                |-> None,
      kiln_id              |-> None,
      serial_number        |-> None,
      kiln_name            |-> None,
      consecutive_failures |-> 0,
      update_interval      |-> update_interval_minutes,
      data                 |-> JNull,
      last_update_success  |-> TRUE,
      pc                   |-> "idle",
      attempt              |-> 0 ]

\* the result of a call: the coordinator after it, the exception text it
\* raised (NoExc if none) and the value it returned
Outcome(co, exc, result) == [co |-> co, exc |-> exc, result |-> result]

\* a variant without the `if not self.token` check
LoginErrorUnchecked(r) ==
    CASE r.status = 401 -> "Invalid credentials - check email and password"
      [] r.status = 429 -> "Rate limited - too many login attempts"
      [] r.status # 200 -> "Login failed with status " \o ToString(r.status)
      [] OTHER          -> NoExc

\* _authenticate: the text raised inside the `async with` block for a response
LoginError(r) ==
    CASE r.status = 401 -> "Invalid credentials - check email and password"
      [] r.status = 429 -> "Rate limited - too many login attempts"
      [] r.status # 200 -> "Login failed with status " \o ToString(r.status)
      [] Falsy(r.token) -> "Token not found in login response"
      [] OTHER          -> NoExc

\* a variant that reports a 401 like any other status that is not 200
AuthenticateGeneric(s, r) ==
    IF r.status = TimedOut
    THEN Outcome(s, "Login request timed out", None)
    ELSE LET co == IF r.status = 200 THEN [s EXCEPT !.token = r.token] ELSE s
             err == IF r.status = 401
                    THEN "Login failed with status " \o ToString(r.status)
                    ELSE LoginError(r)
         IN  IF err = NoExc
             THEN Outcome(co, NoExc, None)
             ELSE Outcome(co, "Authentication error: " \o err, None)

\* _authenticate: the outer except clauses
Authenticate(s, r) ==
    IF r.status = TimedOut
    THEN Outcome(s, "Login request timed out", None)
    ELSE LET co == IF r.status = 200 THEN [s EXCEPT !.token = r.token] ELSE s
         IN  IF LoginError(r) = NoExc
             THEN Outcome(co, NoExc, None)
             ELSE Outcome(co, "Authentication error: " \o LoginError(r), None)

\* a variant that logs in whether or not a token is held
NeedsLoginAlways(s) == TRUE

\* _ensure_authenticated: is _authenticate called
NeedsLogin(s) == Falsy(s.token)

\* _fetch_kiln_settings: the status branches
SettingsStatusError(status) ==
    CASE status = TimedOut -> "Kiln settings request timed out"
      [] status = 401 -> "Authentication token expired"
      [] status = 500 -> "Server error when fetching kiln settings"
      [] status # 200 -> "Kiln settings fetch failed with status " \o ToString(status)
      [] OTHER        -> NoExc

\* first_kiln.get("name", "Kiln")
GetName(kiln) == IF kiln.name = None THEN "Kiln" ELSE kiln.name

\* a variant without the `if not self.kiln_id` check
FetchKilnSettingsUnchecked(s, r) ==
    IF SettingsStatusError(r.status) # NoExc
    THEN Outcome(IF r.status = 401 THEN [s EXCEPT !.token = None] ELSE s,
                 SettingsStatusError(r.status), None)
    ELSE IF NonEmptyList(r.body)
         THEN LET first_kiln == r.body.items[1]
              IN  Outcome([s EXCEPT !.kiln_id = first_kiln.kiln_id,
                                    !.serial_number = first_kiln.serial_number,
                                    !.kiln_name = GetName(first_kiln)], NoExc, None)
         ELSE Outcome(s, "No kiln settings data available", None)

\* _fetch_kiln_settings
FetchKilnSettings(s, r) ==
    IF SettingsStatusError(r.status) # NoExc
    THEN Outcome(IF r.status = 401 THEN [s EXCEPT !.token = None] ELSE s,
                 SettingsStatusError(r.status), None)
    ELSE IF NonEmptyList(r.body)
         THEN LET first_kiln == r.body.items[1]
                  co == [s EXCEPT !.kiln_id = first_kiln.kiln_id,
                                  !.serial_number = first_kiln.serial_number,
                                  !.kiln_name = GetName(first_kiln)]
              IN  IF Falsy(co.kiln_id)
                  THEN Outcome(co, "Kiln ID missing in settings response", None)
                  ELSE Outcome(co, NoExc, None)
         ELSE Outcome(s, "No kiln settings data available", None)

\* _fetch_kiln_data: the status branches
DataStatusError(status) ==
    CASE status = TimedOut -> "Kiln data request timed out"
      [] status = 401 -> "Authentication token expired during data fetch"
      [] status = 404 -> "Kiln not found - check if kiln is online"
      [] status = 500 -> "Server error when fetching kiln data (status 500)"
      [] status # 200 -> "Kiln data fetch failed with status " \o ToString(status)
      [] OTHER        -> NoExc

\* _fetch_kiln_data: `return data[0]`
FirstElement(body) == body.items[1]

\* a variant without the 401 branch: the token survives a 401
FetchKilnDataKeepsToken(s, r) ==
    IF r.status = 401
    THEN Outcome(s, "Kiln data fetch failed with status " \o ToString(r.status), None)
    ELSE IF DataStatusError(r.status) # NoExc
         THEN Outcome(s, DataStatusError(r.status), None)
         ELSE IF ~NonEmptyList(r.body)
              THEN Outcome(s, "Empty or invalid kiln data response", None)
              ELSE Outcome(s, NoExc, FirstElement(r.body))

\* _fetch_kiln_data
FetchKilnData(s, r) ==
    IF DataStatusError(r.status) # NoExc
    THEN Outcome(IF r.status = 401 THEN [s EXCEPT !.token = None] ELSE s,
                 DataStatusError(r.status), None)
    ELSE IF ~NonEmptyList(r.body)
         THEN Outcome(s, "Empty or invalid kiln data response", None)
         ELSE Outcome(s, NoExc, FirstElement(r.body))

\* every exception text the three calls can raise for the responses above
ErrorTexts ==
    LET s == Construct(DEFAULT_UPDATE_INTERVAL)
    IN  { Authenticate(s, r).exc : r \in LoginResponses }
        \cup { FetchKilnSettings(s, r).exc : r \in SettingsResponses }
        \cup { FetchKilnData(s, r).exc : r \in DataResponses }

\* _async_update_data: `if "500" in str(exc) or "auth" in str(exc).lower()`
SuspectsAuth(msg) == Contains(msg, "500") \/ Contains(Lower(msg), "auth")

\* the same test, evaluated once per text
SuspectsAuthOf == [msg \in ErrorTexts |-> SuspectsAuth(msg)]

\* a variant that clears the token after every failure
ClearsTokenAlways(msg) == TRUE

\* _async_update_data: the test of the token-clearing heuristic
ClearsToken(msg) == SuspectsAuthOf[msg]

\* _async_update_data: `self._consecutive_failures += 1`
CountFailure(n) == n + 1

\* a variant that is off by one
RetriesLeftOffByOne(attempt) == attempt < max_retries

\* _async_update_data: `if attempt < self._max_retries - 1`
RetriesLeft(attempt) == attempt < max_retries - 1

\* a variant that sets the raised interval whatever the interval was
RaiseIntervalFixed(failures, minutes) ==
    IF failures >= FailureThreshold THEN RaisedInterval ELSE minutes

\* _async_update_data: the interval after a tick that ended in failure
RaiseInterval(failures, minutes) ==
    IF failures >= FailureThreshold THEN Max(RaisedInterval, minutes) ELSE minutes

\* _async_update_data: the text of the UpdateFailed that ends a tick
ErrorReport(msg) ==
    "Kiln API error after " \o ToString(max_retries) \o " attempts: " \o msg

\* a variant that fetches the settings in every attempt
AfterAuthenticatedRefetch(s) == [s EXCEPT !.pc = "settings"]

\* _async_update_data: where an attempt goes after _ensure_authenticated
AfterAuthenticated(s) ==
    [s EXCEPT !.pc = IF Falsy(s.kiln_id) THEN "settings" ELSE "data"]

\* _async_update_data: the start of one iteration of the retry loop
BeginAttempt(s) ==
    IF NeedsLogin(s) THEN [s EXCEPT !.pc = "login"] ELSE AfterAuthenticated(s)

\* a variant that clears the snapshot when the tick ends in failure
ExceptHandlerClearsData(s, msg) ==
    LET counted == [s EXCEPT !.consecutive_failures = CountFailure(@)]
        cleared == IF ClearsToken(msg)
                   THEN [counted EXCEPT !.token = None, !.kiln_id = None]
                   ELSE counted
    IN  IF RetriesLeft(s.attempt)
        THEN [cleared EXCEPT !.pc = "sleep"]
        ELSE [cleared EXCEPT
                !.update_interval = RaiseInterval(cleared.consecutive_failures, @),
                !.pc = "idle",
                !.data = JNull,
                !.last_update_success = FALSE]

\* _async_update_data: the `except Exception as exc` handler; a tick that
\* raises UpdateFailed leaves data alone and sets last_update_success False
ExceptHandler(s, msg) ==
    LET counted == [s EXCEPT !.consecutive_failures = CountFailure(@)]
        cleared == IF ClearsToken(msg)
                   THEN [counted EXCEPT !.token = None, !.kiln_id = None]
                   ELSE counted
    IN  IF RetriesLeft(s.attempt)
        THEN [cleared EXCEPT !.pc = "sleep"]
        ELSE [cleared EXCEPT
                !.update_interval = RaiseInterval(cleared.consecutive_failures, @),
                !.pc = "idle",
                !.last_update_success = FALSE]

\* a variant that keeps the failure counter
SucceedKeepsCount(s, snapshot) ==
    [s EXCEPT !.pc = "idle", !.data = snapshot, !.last_update_success = TRUE]

\* _async_update_data: the success path; the base class stores the snapshot
Succeed(s, snapshot) ==
    [s EXCEPT !.consecutive_failures = 0,
              !.pc = "idle",
              !.data = snapshot,
              !.last_update_success = TRUE]

(***************************************************************************)
(* KilnSensor (sensor.py): the value and the availability an entity shows  *)
(* for the state of its coordinator.  A call gives a record whose result   *)
(* is the value returned and whose exc is the exception that leaves it.    *)
(***************************************************************************)
SENSORS ==
    [ temperature     |-> [data_path |-> <<"list", "temperature">>, value_type |-> "float"],
      kilnStatus      |-> [data_path |-> <<"list", "kilnStatus">>, value_type |-> "str"],
      firmwareVersion |-> [data_path |-> <<"settings", "firmwareVersion">>, value_type |-> "str"],
      numFirings      |-> [data_path |-> <<"settings", "numFirings">>, value_type |-> "int"],
      numZones        |-> [data_path |-> <<"settings", "numZones">>, value_type |-> "int"] ]

SensorKeys == DOMAIN SENSORS

\* the truth value Python gives a JSON value
Truthy(j) ==
    CASE j.t = "null" -> FALSE
      [] j.t = "dict" -> j.d # NoItems
      [] j.t = "str"  -> j.v # ""
      [] OTHER        -> j.v \notin {"0", "0.0"}

Returned(value) == [exc |-> NoExc, result |-> value]

Raised(e) == [exc |-> e, result |-> JNull]

\* data.get(key, {}): only a mapping has get
DictGet(j, key) ==
    IF j.t # "dict" THEN Raised("AttributeError")
    ELSE Returned(IF key \in DOMAIN j.d THEN j.d[key] ELSE EmptyDict)

\* for key in data_path: data = data.get(key, {})
RECURSIVE Walk(_, _)
Walk(j, path) ==
    IF path = <<>> THEN Returned(j)
    ELSE LET got == DictGet(j, Head(path))
         IN  IF got.exc # NoExc THEN got ELSE Walk(got.result, Tail(path))

Digits == "0123456789"

RECURSIVE AllDigits(_)
AllDigits(text) ==
    \/ text = ""
    \/ Contains(Digits, SubSeq(text, 1, 1)) /\ AllDigits(SubSeq(text, 2, Len(text)))

\* the text before and after the first "." of a number text
IntPart(text) ==
    IF Contains(text, ".")
    THEN LET i == CHOOSE j \in 1..Len(text) :
                      SubSeq(text, j, j) = "." /\ ~Contains(SubSeq(text, 1, j - 1), ".")
         IN  SubSeq(text, 1, i - 1)
    ELSE text

FracPart(text) ==
    IF Contains(text, ".") THEN SubSeq(text, Len(IntPart(text)) + 2, Len(text)) ELSE ""

RECURSIVE StripLeadingZeros(_)
StripLeadingZeros(text) ==
    IF Len(text) > 1 /\ SubSeq(text, 1, 1) = "0"
    THEN StripLeadingZeros(SubSeq(text, 2, Len(text)))
    ELSE text

RECURSIVE StripTrailingZeros(_)
StripTrailingZeros(text) ==
    IF Len(text) > 1 /\ SubSeq(text, Len(text), Len(text)) = "0"
    THEN StripTrailingZeros(SubSeq(text, 1, Len(text) - 1))
    ELSE text

\* texts of unsigned decimal numbers, the only number texts of the model
IsIntText(text) == text # "" /\ AllDigits(text)

IsFloatText(text) ==
    /\ AllDigits(IntPart(text)) /\ AllDigits(FracPart(text))
    /\ IntPart(text) \o FracPart(text) # ""

\* how Python writes the float and the int of a number text
FloatText(text) ==
    StripLeadingZeros(IF IntPart(text) = "" THEN "0" ELSE IntPart(text))
    \o "." \o StripTrailingZeros(IF FracPart(text) = "" THEN "0" ELSE FracPart(text))

IntText(text) == StripLeadingZeros(IF IntPart(text) = "" THEN "0" ELSE IntPart(text))

\* float(data)
PyFloat(j) ==
    CASE j.t = "num" -> Returned(PyValue("float", FloatText(j.v)))
      [] j.t = "str" -> IF IsFloatText(j.v)
                        THEN Returned(PyValue("float", FloatText(j.v)))
                        ELSE Raised("ValueError")
      [] OTHER       -> Raised("TypeError")

\* int(data): truncates a number, parses a text of digits
PyInt(j) ==
    CASE j.t = "num" -> Returned(PyValue("int", IntText(j.v)))
      [] j.t = "str" -> IF IsIntText(j.v)
                        THEN Returned(PyValue("int", IntText(j.v)))
                        ELSE Raised("ValueError")
      [] OTHER       -> Raised("TypeError")

\* str(data): never raises; a mapping gives its repr
PyStr(j) ==
    CASE j.t = "dict" -> Returned(PyValue("str", IF j.d = NoItems THEN "{}" ELSE "{...}"))
      [] j.t = "null" -> Returned(PyValue("str", "None"))
      [] OTHER        -> Returned(PyValue("str", j.v))

Coerce(value_type, j) ==
    CASE value_type = "float" -> PyFloat(j)
      [] value_type = "int"   -> PyInt(j)
      [] OTHER                -> PyStr(j)

\* except (KeyError, ValueError, TypeError): return None
Caught(out) ==
    IF out.exc \in {"KeyError", "ValueError", "TypeError"} THEN Returned(JNull) ELSE out

\* KilnSensor.native_value
NativeValue(sensor_key, data) ==
    IF ~Truthy(data) THEN Returned(JNull)
    ELSE LET leaf == Walk(data, SENSORS[sensor_key].data_path)
         IN  IF leaf.exc # NoExc THEN Caught(leaf)
             ELSE IF leaf.result # JNull
                  THEN Caught(Coerce(SENSORS[sensor_key].value_type, leaf.result))
                  ELSE Returned(JNull)

\* KilnSensor.available
Available(s) == s.last_update_success /\ s.data # JNull

\* what the entities of a coordinator show
Shown(s) == [k \in SensorKeys |-> NativeValue(k, s.data)]

\* the host has read no entity yet
NotRead == [exc |-> "not read", result |-> JNull]

NothingShown == [k \in SensorKeys |-> NotRead]

(***************************************************************************)
(* What an observer of one coordinator has seen (not program state):       *)
(*   outcome        "none" before the first tick, "running" during a tick, *)
(*                  then "success" or "failed"                             *)
(*   start_failures consecutive_failures when the tick started             *)
(*   start_interval update_interval when the tick started                  *)
(*   attempts       attempts started in the tick                           *)
(*   sleeps, logins backoff sleeps / login requests in the tick            *)
(*   requests       the requests of the current attempt, each with the     *)
(*                  token and kiln_id the coordinator held when it sent it *)
(*   last_fail      the step, status and text of the latest failed attempt *)
(*                  of the tick                                            *)
(*   report         the text of the UpdateFailed that ended the tick       *)
(*   data_body      the body of the latest 200 data response               *)
(*   failed_ticks   failed ticks since construction or the last success    *)
(*   configured     the interval given at construction or reconfiguration  *)
(*   reconfigured   the interval was reconfigured since the tick started   *)
(*   login_reply    the latest response to a login request                 *)
(*   settings_reply the response to the settings request of the attempt    *)
(*   only_404       every attempt of the tick that failed so far failed    *)
(*                  with a 404 of the data request                         *)
(***************************************************************************)
NoFail == [step |-> "none", status |-> 200, msg |-> NoExc]

NoReply == [status |-> -1, token |-> None]

NewHistory(minutes) ==
    [ outcome        |-> "none",
      start_failures |-> 0,
      start_interval |-> minutes,
      attempts       |-> 0,
      sleeps         |-> 0,
      logins         |-> 0,
      requests       |-> <<>>,
      last_fail      |-> NoFail,
      report         |-> None,
      data_body      |-> NotAList,
      failed_ticks   |-> 0,
      configured     |-> minutes,
      reconfigured   |-> FALSE,
      login_reply    |-> NoReply,
      settings_reply |-> NoReply,
      only_404       |-> TRUE ]

Request(kind, s) == [kind |-> kind, token |-> s.token, kiln_id |-> s.kiln_id]

\* the observer's record after coordinator c sent a request of this kind
Sent(c, kind) ==
    [hist[c] EXCEPT !.requests = Append(@, Request(kind, coord[c])),
                    !.logins = IF kind = "login" THEN @ + 1 ELSE @]

\* the observer's record after an attempt failed and left the coordinator as s
Failed(h, s, step, r, msg) ==
    LET h1 == [h EXCEPT !.last_fail = [step |-> step, status |-> r.status, msg |-> msg],
                        !.only_404 = @ /\ step = "data" /\ r.status = 404]
    IN  IF s.pc = "idle"
        THEN [h1 EXCEPT !.outcome = "failed",
                        !.report = ErrorReport(msg),
                        !.failed_ticks = @ + 1]
        ELSE h1

(***************************************************************************)
(* The config entry and its setup (__init__.py).  pc is the position of    *)
(* async_setup_entry: "start" (not called), "login" and "settings" (the    *)
(* request of _fetch_all_kilns that is in flight), "done" (returned or     *)
(* raised).                                                                *)
(*   options      entry.options: <<>> or <<update_interval>>               *)
(*   temp         the temp_coordinator of _fetch_all_kilns, once built     *)
(*   kilns        the list _fetch_all_kilns returned                       *)
(*   coordinators hass.data[DOMAIN][entry_id] (<<>> while not set): in     *)
(*                SetupSpec the coordinators themselves, in Spec the ids   *)
(*                of the coordinators in coord                             *)
(*   error        the exception async_setup_entry raised, "none" if none   *)
(*   message      its text                                                 *)
(*   setups       calls of async_setup_entry so far                        *)
(* and what an observer of the latest call has seen:                       *)
(*   requests     the kinds of the requests it sent                        *)
(*   reply        the step and the response of its latest request          *)
(*   prior_token  the token the call before it had obtained (None if none) *)
(***************************************************************************)
NewEntry(options) ==
    [ pc           |-> "start",
      options      |-> options,
      temp         |-> <<>>,
      kilns        |-> <<>>,
      coordinators |-> <<>>,
      error        |-> "none",
      message      |-> None,
      setups       |-> 0,
      requests     |-> <<>>,
      reply        |-> [step |-> "none"],
      prior_token  |-> None ]

\* the options of the entry: none, or an interval other than the default
Options == {<<>>} \cup { <<m>> : m \in Intervals \ {DEFAULT_UPDATE_INTERVAL} }

\* entry.options.get(CONF_UPDATE_INTERVAL, DEFAULT_UPDATE_INTERVAL)
OptionsGet(options) == IF options = <<>> THEN DEFAULT_UPDATE_INTERVAL ELSE options[1]

\* an entry whose coordinators are constructed with the configured interval
\* and registered, none of them refreshed yet
Registered(options, ids) ==
    [NewEntry(options) EXCEPT !.pc = "done", !.coordinators = ids, !.setups = 1]

\* the ids of a set of coordinators as a list
RECURSIVE AsList(_)
AsList(ids) ==
    IF ids = {} THEN <<>>
    ELSE LET c == CHOOSE d \in ids : \A e \in ids : d <= e
         IN  <<c>> \o AsList(ids \ {c})

Init ==
    \E o \in Options :
        /\ coord = [c \in CoordIds |-> Construct(OptionsGet(o))]
        /\ hist = [c \in CoordIds |-> NewHistory(OptionsGet(o))]
        /\ entry = Registered(o, AsList(CoordIds))
        /\ shown = NothingShown

\* a variant in which the token is held once for all coordinators
StoreSharedToken(c, s, h) ==
    /\ coord' = [d \in DOMAIN coord |->
                    IF d = c THEN s ELSE [coord[d] EXCEPT !.token = s.token]]
    /\ hist' = [hist EXCEPT ![c] = h]
    /\ UNCHANGED <<entry, shown>>

\* a step of coordinator c: its fields and the observer's record of it
\* change, nothing else does
Store(c, s, h) ==
    /\ coord' = [coord EXCEPT ![c] = s]
    /\ hist' = [hist EXCEPT ![c] = h]
    /\ UNCHANGED <<entry, shown>>

\* the host starts a tick: _async_update_data runs up to its first request
TickStart(c) ==
    /\ coord[c].pc = "idle"
    /\ coord[c].consecutive_failures <= MaxFailures
    /\ Store(c, BeginAttempt([coord[c] EXCEPT !.attempt = 0]),
             [hist[c] EXCEPT !.outcome = "running",
                             !.start_failures = coord[c].consecutive_failures,
                             !.start_interval = coord[c].update_interval,
                             !.attempts = 1,
                             !.sleeps = 0,
                             !.logins = 0,
                             !.requests = <<>>,
                             !.last_fail = NoFail,
                             !.report = None,
                             !.reconfigured = FALSE,
                             !.settings_reply = NoReply,
                             !.only_404 = TRUE])

\* the login request of _authenticate completes
LoginResponse(c, r) ==
    /\ coord[c].pc = "login"
    /\ LET out == Authenticate(coord[c], r)
           h == [Sent(c, "login") EXCEPT !.login_reply = r]
       IN  IF out.exc = NoExc
           THEN Store(c, AfterAuthenticated(out.co), h)
           ELSE LET s == ExceptHandler(out.co, out.exc)
                IN  Store(c, s, Failed(h, s, "login", r, out.exc))

\* the settings request of _fetch_kiln_settings completes
SettingsResponse(c, r) ==
    /\ coord[c].pc = "settings"
    /\ LET out == FetchKilnSettings(coord[c], r)
           h == [Sent(c, "settings") EXCEPT !.settings_reply = r]
       IN  IF out.exc = NoExc
           THEN Store(c, [out.co EXCEPT !.pc = "data"], h)
           ELSE LET s == ExceptHandler(out.co, out.exc)
                IN  Store(c, s, Failed(h, s, "settings", r, out.exc))

\* the data request of _fetch_kiln_data completes
DataResponse(c, r) ==
    /\ coord[c].pc = "data"
    /\ LET out == FetchKilnData(coord[c], r)
       IN  IF out.exc = NoExc
           THEN Store(c, Succeed(out.co, out.result),
                      [Sent(c, "data") EXCEPT !.outcome = "success",
                                              !.data_body = r.body,
                                              !.failed_ticks = 0])
           ELSE LET s == ExceptHandler(out.co, out.exc)
                IN  Store(c, s, Failed(Sent(c, "data"), s, "data", r, out.exc))

\* asyncio.sleep(self._retry_delay) returns: the next attempt starts
Sleep(c) ==
    /\ coord[c].pc = "sleep"
    /\ Store(c, BeginAttempt([coord[c] EXCEPT !.attempt = @ + 1]),
             [hist[c] EXCEPT !.attempts = @ + 1,
                             !.sleeps = @ + 1,
                             !.requests = <<>>,
                             !.settings_reply = NoReply])

\* a variant that builds the coordinator anew with the interval
ConstructAgain(s, minutes) ==
    [Construct(minutes) EXCEPT !.pc = s.pc, !.attempt = s.attempt]

\* KilnDataCoordinator.update_interval_minutes
update_interval_minutes(s, minutes) == [s EXCEPT !.update_interval = minutes]

\* the registered coordinators as a set
RegisteredIds == { entry.coordinators[i] : i \in 1..Len(entry.coordinators) }

\* a variant that also resets the failure counters
ListenerResetsCount(options) ==
    LET update_interval == OptionsGet(options)
    IN  /\ entry' = [entry EXCEPT !.options = options]
        /\ coord' = [c \in DOMAIN coord |->
                        IF c \in RegisteredIds
                        THEN [update_interval_minutes(coord[c], update_interval)
                                EXCEPT !.consecutive_failures = 0]
                        ELSE coord[c]]
        /\ hist' = [c \in DOMAIN hist |->
                        IF c \in RegisteredIds
                        THEN [hist[c] EXCEPT !.configured = update_interval,
                                             !.reconfigured = TRUE]
                        ELSE hist[c]]
        /\ UNCHANGED shown

\* the options of the entry change and the host calls update_listener: it
\* runs without suspension, at any point of the coordinators' ticks
update_listener(options) ==
    LET update_interval == OptionsGet(options)
    IN  /\ entry' = [entry EXCEPT !.options = options]
        /\ coord' = [c \in DOMAIN coord |->
                        IF c \in RegisteredIds
                        THEN update_interval_minutes(coord[c], update_interval)
                        ELSE coord[c]]
        /\ hist' = [c \in DOMAIN hist |->
                        IF c \in RegisteredIds
                        THEN [hist[c] EXCEPT !.configured = update_interval,
                                             !.reconfigured = TRUE]
                        ELSE hist[c]]
        /\ UNCHANGED shown

Next ==
    \/ \E c \in CoordIds :
          \/ TickStart(c)
          \/ \E r \in LoginResponses : LoginResponse(c, r)
          \/ \E r \in SettingsResponses : SettingsResponse(c, r)
          \/ \E r \in DataResponses : DataResponse(c, r)
          \/ Sleep(c)
    \/ \E o \in Options : update_listener(o)

Spec == Init /\ [][Next]_vars

\* the same behaviours, where every request gets its response or times out
\* (timeout=30) and every backoff sleep returns
TickStep(c) ==
    \/ \E r \in LoginResponses : LoginResponse(c, r)
    \/ \E r \in SettingsResponses : SettingsResponse(c, r)
    \/ \E r \in DataResponses : DataResponse(c, r)
    \/ Sleep(c)

FairSpec == Spec /\ \A c \in CoordIds : WF_vars(TickStep(c))

(***************************************************************************)
(* Properties.                                                             *)
(***************************************************************************)
Identity(s) == <<s.kiln_id, s.serial_number, s.kiln_name>>

\* an attempt is between its start and its end
InAttempt(s) == s.pc \in {"login", "settings", "data"}

\* the latest thing coordinator c did is to fail an attempt
JustFailed(c) ==
    /\ coord[c].pc \in {"sleep", "idle"}
    /\ hist[c].outcome \in {"running", "failed"}
    /\ hist[c].last_fail # NoFail

KilnIdMissing == "Kiln ID missing in settings response"

\* C1: a tick that ends in failure leaves consecutive_failure_count at its
\* value at the start of the tick plus exactly 1.
C1_FailedTickCountsOnce ==
    \A c \in CoordIds :
        hist[c].outcome = "failed" =>
            coord[c].consecutive_failures = hist[c].start_failures + 1

\* C2: in a run of consecutive failed ticks the poll interval stays at its
\* configured value through the 4th failed tick; it is raised only at the end
\* of a failed tick that is at least the 5th in a row.
C2_RaisedOnlyAtFifthFailedTick ==
    \A c \in CoordIds :
        /\ hist[c].failed_ticks < FailureThreshold
           => coord[c].update_interval = hist[c].configured
        /\ (hist[c].failed_ticks >= FailureThreshold /\ hist[c].outcome = "failed")
           => coord[c].update_interval = Max(RaisedInterval, hist[c].start_interval)

\* C3 as stated: once the kiln identity is set, no step changes it.
C3_IdentityNeverChanges ==
    [][\A c \in CoordIds :
          ~Falsy(coord[c].kiln_id) => Identity(coord'[c]) = Identity(coord[c])]_vars

\* C3 as amended: the kiln identity changes only by a settings response, which
\* is requested only while kiln_id is missing, or by a failed data attempt
\* whose text contains "500" or "auth", which clears kiln_id and leaves
\* serial_number and name.
C3_IdentityOnlyCleared ==
    [][\A c \in CoordIds :
          Identity(coord'[c]) # Identity(coord[c]) =>
              \/ /\ coord[c].pc = "settings"
                 /\ Falsy(coord[c].kiln_id)
              \/ /\ coord[c].pc = "data"
                 /\ ~Falsy(coord[c].kiln_id)
                 /\ coord'[c].kiln_id = None
                 /\ coord'[c].serial_number = coord[c].serial_number
                 /\ coord'[c].kiln_name = coord[c].kiln_name
                 /\ coord'[c].pc \in {"sleep", "idle"}
                 /\ hist'[c].last_fail.step = "data"
                 /\ SuspectsAuth(hist'[c].last_fail.msg)]_vars

\* C3 witness: kiln_id was cleared after the identity of KilnA had been set.
C3_Witness ==
    \E c \in CoordIds :
        /\ coord[c].kiln_id = None
        /\ coord[c].serial_number = KilnA.serial_number
        /\ hist[c].last_fail.step = "data"
        /\ JustFailed(c)

\* C5: after a 401 on the settings or data request the token is absent, and
\* the next attempt of the tick starts with a login request.
C5_ReauthAfter401 ==
    \A c \in CoordIds :
        (hist[c].last_fail.status = 401 /\ hist[c].last_fail.step \in {"settings", "data"}) =>
            /\ JustFailed(c) => coord[c].token = None
            /\ (InAttempt(coord[c]) /\ hist[c].requests = <<>>) => coord[c].pc = "login"
            /\ (InAttempt(coord[c]) /\ hist[c].requests # <<>>)
               => hist[c].requests[1].kind = "login"

\* C5 witness: the attempt after a data 401 has sent its login request.
C5_Witness ==
    \E c \in CoordIds :
        /\ hist[c].last_fail.status = 401
        /\ hist[c].last_fail.step = "data"
        /\ coord[c].pc = "data"
        /\ hist[c].attempts = 2
        /\ hist[c].requests # <<>>

RequestOrders ==
    { <<>>, <<"login">>, <<"settings">>, <<"data">>, <<"login", "settings">>,
      <<"login", "data">>, <<"settings", "data">>, <<"login", "settings", "data">> }

\* C6: a settings or data request is sent only with a non-empty token, and the
\* requests of one attempt come in the order login, settings, data, the
\* settings request only when kiln_id is missing.
C6_RequestsCarryToken ==
    \A c \in CoordIds :
        /\ coord[c].pc \in {"settings", "data"} => ~Falsy(coord[c].token)
        /\ [i \in 1..Len(hist[c].requests) |-> hist[c].requests[i].kind] \in RequestOrders
        /\ \A i \in 1..Len(hist[c].requests) :
              LET q == hist[c].requests[i]
              IN  /\ q.kind \in {"settings", "data"} => ~Falsy(q.token)
                  /\ q.kind = "settings" => Falsy(q.kiln_id)

\* C6 witness: an attempt that started without a token has logged in, fetched
\* the settings and fetched the data.
C6_Witness ==
    \E c \in CoordIds :
        /\ Len(hist[c].requests) = 3
        /\ hist[c].requests[1].token = None
        /\ ~Falsy(hist[c].requests[3].token)

\* C7: after a login response of 401 or 429 the tick has ended in failure,
\* with that one login request and no backoff sleep.
C7_CredentialErrorNotRetried ==
    \A c \in CoordIds :
        (hist[c].last_fail.step = "login" /\ hist[c].last_fail.status \in {401, 429}) =>
            /\ hist[c].outcome = "failed"
            /\ coord[c].pc = "idle"
            /\ hist[c].logins = 1
            /\ hist[c].sleeps = 0

\* C8: when the settings fetch leaves kiln_id missing the tick has ended in
\* failure: no sleep follows and no further attempt starts.
C8_MissingKilnIdEndsTick ==
    \A c \in CoordIds :
        hist[c].last_fail.msg = KilnIdMissing =>
            /\ hist[c].outcome = "failed"
            /\ coord[c].pc = "idle"

\* C9 (state part): a tick has at most max_retries attempts, one sleep between
\* two attempts and none after the last; it ends with a snapshot or with an
\* UpdateFailed that carries the error of the last attempt.
C9_TickShape ==
    \A c \in CoordIds :
        LET h == hist[c]
            s == coord[c]
        IN  /\ h.attempts <= max_retries
            /\ h.sleeps <= max_retries - 1
            /\ h.outcome # "none" => h.sleeps = h.attempts - 1
            /\ s.pc = "sleep" => (h.attempts < max_retries /\ h.last_fail # NoFail)
            /\ h.outcome = "running" <=> s.pc # "idle"
            /\ h.outcome = "failed" =>
                  /\ h.attempts = max_retries
                  /\ h.report = ErrorReport(h.last_fail.msg)
                  /\ ~s.last_update_success
            /\ h.outcome = "success" =>
                  /\ h.report = None
                  /\ s.last_update_success
                  /\ s.data \in Snapshots

\* C9: every tick terminates, after at most max_retries attempts, with exactly
\* one outcome, sleeping only between two attempts.
C9_TickTerminates ==
    /\ []C9_TickShape
    /\ \A c \in CoordIds : (hist[c].outcome = "running") ~> (hist[c].outcome # "running")

\* C9 witness: a tick has failed its third attempt after two sleeps.
C9_Witness ==
    \E c \in CoordIds :
        /\ hist[c].outcome = "failed"
        /\ hist[c].attempts = max_retries
        /\ hist[c].sleeps = max_retries - 1

\* C10: after a successful tick consecutive_failure_count is 0 and the
\* snapshot is the first element of the data response list.
C10_SuccessResets ==
    \A c \in CoordIds :
        hist[c].outcome = "success" =>
            /\ coord[c].consecutive_failures = 0
            /\ NonEmptyList(hist[c].data_body)
            /\ coord[c].data = hist[c].data_body.items[1]

\* C10 witness: a tick that started with failures counted and failed an
\* attempt has succeeded on a list of two elements.
C10_Witness ==
    \E c \in CoordIds :
        /\ hist[c].outcome = "success"
        /\ hist[c].start_failures > 0
        /\ hist[c].attempts > 1
        /\ Len(hist[c].data_body.items) = 2

(***************************************************************************)
(* async_setup_entry and _fetch_all_kilns.                                 *)
(***************************************************************************)
\* the keyword arguments KilnDataCoordinator.__init__ accepts besides the
\* positional hass, session, config_data
InitKeywords == {"update_interval_minutes"}

\* a call KilnDataCoordinator(hass, session, entry.data, **keywords): the
\* TypeError Python raises for a keyword __init__ does not have
ConstructError(keywords) ==
    IF keywords \subseteq InitKeywords
    THEN NoExc
    ELSE "KilnDataCoordinator.__init__() got an unexpected keyword argument"

\* async_setup_entry raises: nothing is stored in hass.data
Raise(e, error, message) ==
    [e EXCEPT !.pc = "done", !.error = error, !.message = message]

\* async_setup_entry: `except Exception as exc` around _fetch_all_kilns
NotReady(e, msg) ==
    Raise(e, "ConfigEntryNotReady", "Could not fetch kiln list: " \o msg)

\* _fetch_all_kilns: the checks on the settings response (str() of a
\* TimeoutError is empty)
DiscoveryError(r) ==
    CASE r.status = TimedOut -> ""
      [] r.status # 200 -> "Failed to fetch kiln settings: status " \o ToString(r.status)
      [] ~r.body.is_list -> "Invalid settings response format"
      [] OTHER           -> NoExc

\* a variant without the `if not kilns` check: an empty list is set up
AfterDiscoveryUnchecked(e, kilns) ==
    IF kilns = <<>>
    THEN [e EXCEPT !.pc = "done", !.coordinators = <<>>]
    ELSE LET err == ConstructError({"update_interval_minutes", "kiln_info"})
         IN  IF err # NoExc
             THEN Raise([e EXCEPT !.kilns = kilns], "TypeError", err)
             ELSE [e EXCEPT !.kilns = kilns,
                            !.pc = "done",
                            !.coordinators =
                                [i \in 1..Len(kilns) |-> Construct(OptionsGet(e.options))]]

\* async_setup_entry from the return of _fetch_all_kilns on: the first
\* iteration of `for kiln_info in kilns` calls the constructor with
\* update_interval_minutes= and kiln_info= (were the call to return, the
\* coordinators would be refreshed and stored)
AfterDiscovery(e, kilns) ==
    IF kilns = <<>>
    THEN Raise(e, "ConfigEntryNotReady", "No kilns found for this account")
    ELSE LET err == ConstructError({"update_interval_minutes", "kiln_info"})
         IN  IF err # NoExc
             THEN Raise([e EXCEPT !.kilns = kilns], "TypeError", err)
             ELSE [e EXCEPT !.kilns = kilns,
                            !.pc = "done",
                            !.coordinators =
                                [i \in 1..Len(kilns) |-> Construct(OptionsGet(e.options))]]

SetupInit ==
    /\ coord = <<>>
    /\ hist = <<>>
    /\ \E o \in Options : entry = NewEntry(o)
    /\ shown = NothingShown

\* the host calls async_setup_entry: it runs up to the login request of the
\* temporary coordinator (a new coordinator holds no token)
SetupStart ==
    /\ entry.pc = "start"
    /\ entry' = [entry EXCEPT !.pc = "login",
                              !.temp = <<Construct(DEFAULT_UPDATE_INTERVAL)>>,
                              !.kilns = <<>>,
                              !.error = "none",
                              !.message = None,
                              !.setups = @ + 1,
                              !.requests = <<"login">>,
                              !.reply = [step |-> "none"],
                              !.prior_token = IF entry.temp = <<>> THEN None
                                              ELSE entry.temp[1].token]
    /\ UNCHANGED <<coord, hist, shown>>

\* the login request of temp_coordinator._ensure_authenticated completes
SetupLoginResponse(r) ==
    /\ entry.pc = "login"
    /\ LET out == Authenticate(entry.temp[1], r)
           e == [entry EXCEPT !.temp = <<out.co>>,
                              !.reply = [step |-> "login", r |-> r]]
       IN  entry' = IF out.exc = NoExc
                    THEN [e EXCEPT !.pc = "settings",
                                   !.requests = Append(@, "settings")]
                    ELSE NotReady(e, out.exc)
    /\ UNCHANGED <<coord, hist, shown>>

\* the settings request of _fetch_all_kilns completes
SetupSettingsResponse(r) ==
    /\ entry.pc = "settings"
    /\ LET e == [entry EXCEPT !.reply = [step |-> "settings", r |-> r]]
       IN  entry' = IF DiscoveryError(r) # NoExc
                    THEN NotReady(e, DiscoveryError(r))
                    ELSE AfterDiscovery(e, r.body.items)
    /\ UNCHANGED <<coord, hist, shown>>

\* the host sets the entry up again after ConfigEntryNotReady
SetupRetry ==
    /\ entry.pc = "done"
    /\ entry.error = "ConfigEntryNotReady"
    /\ entry.setups < MaxSetups
    /\ entry' = [entry EXCEPT !.pc = "start"]
    /\ UNCHANGED <<coord, hist, shown>>

SetupNext ==
    \/ SetupStart
    \/ \E r \in LoginResponses : SetupLoginResponse(r)
    \/ \E r \in SettingsResponses : SetupSettingsResponse(r)
    \/ SetupRetry

SetupSpec == SetupInit /\ [][SetupNext]_vars

\* C4: a setup that discovered N >= 1 kilns and did not end "not ready" has
\* registered exactly N coordinators, the i-th bound to the i-th kiln.
C4_OneCoordinatorPerKiln ==
    (entry.pc = "done" /\ entry.error # "ConfigEntryNotReady") =>
        /\ entry.error = "none"
        /\ Len(entry.coordinators) = Len(entry.kilns)
        /\ \A i \in 1..Len(entry.coordinators) :
              /\ entry.coordinators[i].kiln_id = entry.kilns[i].kiln_id
              /\ entry.coordinators[i].serial_number = entry.kilns[i].serial_number

\* C11: a failed tick that ends with consecutive_failure_count >= 5 leaves the
\* poll interval at max(15, the interval before it); no step of a tick lowers
\* the interval, so that without a reconfiguration it never decreases, and a
\* step that lowers it is a reconfiguration to the configured value.
C11_IntervalNeverLowered ==
    /\ [](\A c \in CoordIds :
            (hist[c].outcome # "none" /\ ~hist[c].reconfigured) =>
                /\ coord[c].update_interval >= hist[c].start_interval
                /\ (hist[c].outcome = "failed" /\ coord[c].consecutive_failures >= 5) =>
                      coord[c].update_interval = Max(15, hist[c].start_interval))
    /\ [][\A c \in CoordIds :
            /\ coord[c].pc # coord'[c].pc =>
                  coord'[c].update_interval >= coord[c].update_interval
            /\ (hist[c].outcome = "running" /\ hist'[c].outcome = "failed"
                   /\ coord'[c].consecutive_failures >= 5) =>
                  coord'[c].update_interval = Max(15, coord[c].update_interval)
            /\ coord'[c].update_interval < coord[c].update_interval =>
                  /\ coord'[c] = update_interval_minutes(coord[c], OptionsGet(entry'.options))
                  /\ hist'[c].reconfigured]_vars

\* a failed tick raised the interval from 5 to 15, and one left 20 as it was
C11_Witness ==
    \E c \in CoordIds :
        /\ hist[c].outcome = "failed"
        /\ ~hist[c].reconfigured
        /\ coord[c].consecutive_failures >= 5
        /\ \/ hist[c].start_interval = 5 /\ coord[c].update_interval = 15
           \/ hist[c].start_interval = 20 /\ coord[c].update_interval = 20

\* the snapshot of the most recent successful tick
LastGood(h) == IF NonEmptyList(h.data_body) THEN h.data_body.items[1] ELSE JNull

\* C12: the published snapshot is always the result of the most recent
\* successful tick (None before the first), so a failed tick leaves it and the
\* values shown unchanged while the success flag and availability are false;
\* after a successful tick the flag is true and the values are those of the
\* new snapshot.
C12_SnapshotSurvivesFailure ==
    \A c \in CoordIds :
        LET s == coord[c]
            h == hist[c]
        IN  /\ s.data = LastGood(h)
            /\ \A k \in SensorKeys : NativeValue(k, s.data) = NativeValue(k, LastGood(h))
            /\ h.outcome = "failed" => (~s.last_update_success /\ ~Available(s))
            /\ h.outcome = "success" =>
                  /\ s.last_update_success /\ Available(s)
                  /\ s.data = h.data_body.items[1]

\* a tick failed after one that succeeded: the temperature is still shown
C12_Witness ==
    \E c \in CoordIds :
        /\ hist[c].outcome = "failed"
        /\ coord[c].data = SnapFiring
        /\ NativeValue("temperature", coord[c].data) = Returned(PyValue("float", "1900.0"))
        /\ ~Available(coord[c])

\* an attempt starts: _ensure_authenticated is called
AttemptStarts(c) == coord[c].pc \in {"idle", "sleep"} /\ InAttempt(coord'[c])

\* C13: _ensure_authenticated sends a login request if and only if no token is
\* held; a login answered 200 with a token stores that token, and the attempts
\* that follow send no login request while the token is held.
C13_LoginIffNoToken ==
    /\ [](\A c \in CoordIds :
            /\ coord[c].pc = "login" => Falsy(coord[c].token)
            /\ \A i \in 1..Len(hist[c].requests) :
                  hist[c].requests[i].kind = "login" => Falsy(hist[c].requests[i].token)
            /\ ~Falsy(coord[c].token) => coord[c].token = hist[c].login_reply.token)
    /\ [][\A c \in CoordIds :
            /\ AttemptStarts(c) =>
                  /\ coord'[c].token = coord[c].token
                  /\ coord'[c].pc = "login" <=> Falsy(coord[c].token)
            /\ (coord[c].pc = "login" /\ coord'[c].pc # "login"
                   /\ hist'[c].login_reply.status = 200
                   /\ ~Falsy(hist'[c].login_reply.token)) =>
                  /\ coord'[c].token = hist'[c].login_reply.token
                  /\ coord'[c].pc \in {"settings", "data"}]_vars

\* after failures that kept the token, a tick sends its data request without
\* a login request, with the token an earlier login returned
C13_Witness ==
    \E c \in CoordIds :
        /\ hist[c].outcome = "running"
        /\ hist[c].attempts = 1
        /\ hist[c].logins = 0
        /\ coord[c].pc = "data"
        /\ coord[c].token = "xyz"
        /\ hist[c].login_reply = [status |-> 200, token |-> "xyz"]
        /\ coord[c].consecutive_failures > 0

\* the latest request of discovery failed: the login, or the settings call
\* with a status other than 200, a body that is no list, or an empty list
DiscoveryFailed ==
    \/ /\ entry.reply.step = "login"
       /\ entry.reply.r.status # 200 \/ Falsy(entry.reply.r.token)
    \/ /\ entry.reply.step = "settings"
       /\ \/ entry.reply.r.status # 200
          \/ ~NonEmptyList(entry.reply.r.body)

\* C14: a setup whose discovery failed ends with ConfigEntryNotReady, with no
\* coordinator created or registered and no data request sent (the host may
\* then have scheduled the next setup, which has not started).
C14_FailedDiscoveryNotReady ==
    DiscoveryFailed =>
        /\ entry.pc = "done" \/ (entry.pc = "start" /\ entry.setups > 0)
        /\ entry.error = "ConfigEntryNotReady"
        /\ entry.coordinators = <<>>
        /\ coord = <<>>
        /\ \A i \in 1..Len(entry.requests) : entry.requests[i] # "data"

\* setup ended "not ready" because discovery returned an empty list
C14_Witness ==
    /\ entry.pc = "done"
    /\ entry.reply.step = "settings"
    /\ entry.reply.r = [status |-> 200, body |-> List(<<>>)]
    /\ entry.message = "No kilns found for this account"

\* a settings response that gives no kiln_id: a status other than 200, a body
\* that is no list or is empty, a first element without kiln_id
SettingsFailed(r) ==
    \/ r.status # 200
    \/ ~NonEmptyList(r.body)
    \/ Falsy(r.body.items[1].kiln_id)

\* C15: a data request is sent only with a non-empty kiln_id, which it
\* carries; an attempt that starts without kiln_id sends the settings request
\* before it, and a settings response that gives no kiln_id ends the attempt
\* in failure with no data request.
C15_DataRequestHasKilnId ==
    /\ [](\A c \in CoordIds :
            LET h == hist[c]
            IN  /\ coord[c].pc = "data" => ~Falsy(coord[c].kiln_id)
                /\ \A i \in 1..Len(h.requests) :
                      h.requests[i].kind = "data" =>
                          /\ ~Falsy(h.requests[i].kiln_id)
                          /\ \/ h.settings_reply = NoReply
                             \/ /\ i > 1 /\ h.requests[i - 1].kind = "settings"
                                /\ h.requests[i].kiln_id = h.settings_reply.body.items[1].kiln_id
                /\ (h.settings_reply # NoReply /\ SettingsFailed(h.settings_reply)) =>
                      /\ coord[c].pc \in {"sleep", "idle"}
                      /\ h.last_fail.step = "settings"
                      /\ \A i \in 1..Len(h.requests) : h.requests[i].kind # "data")
    /\ [][\A c \in CoordIds :
            /\ (AttemptStarts(c) /\ Falsy(coord[c].kiln_id)) =>
                  coord'[c].pc \in {"login", "settings"}
            /\ (coord[c].pc = "login" /\ InAttempt(coord'[c]) /\ Falsy(coord[c].kiln_id)) =>
                  coord'[c].pc \in {"login", "settings"}]_vars

\* an attempt ended without a data request because the first element of the
\* settings list has no kiln_id
C15_Witness ==
    \E c \in CoordIds :
        /\ coord[c].pc = "sleep"
        /\ hist[c].settings_reply = [status |-> 200, body |-> List(<<KilnNoId>>)]
        /\ hist[c].last_fail.msg = "Kiln ID missing in settings response"
        /\ \A i \in 1..Len(hist[c].requests) : hist[c].requests[i].kind # "data"

\* the fields of a coordinator that a reconfiguration leaves alone
Unconfigured(s) == [s EXCEPT !.update_interval = 0]

\* C16: a reconfiguration to the interval m (the one step that is not a step
\* of a tick) sets the poll interval of every registered coordinator to m,
\* leaves its token, kiln identity, failure count and snapshot (and everything
\* else) as they are, and sends no request.
C16_ReconfigurationFrame ==
    [][(\A c \in CoordIds : coord'[c].pc = coord[c].pc) =>
          \A c \in CoordIds :
              /\ c \in RegisteredIds
              /\ coord'[c].update_interval = OptionsGet(entry'.options)
              /\ coord'[c].token = coord[c].token
              /\ Identity(coord'[c]) = Identity(coord[c])
              /\ coord'[c].consecutive_failures = coord[c].consecutive_failures
              /\ coord'[c].data = coord[c].data
              /\ Unconfigured(coord'[c]) = Unconfigured(coord[c])
              /\ hist'[c].requests = hist[c].requests
              /\ hist'[c].logins = hist[c].logins]_vars

\* a coordinator that holds a token, a kiln identity, a snapshot and failures
\* was reconfigured from the raised interval 15 to 20
C16_Witness ==
    \E c \in CoordIds :
        /\ hist[c].reconfigured
        /\ entry.options = <<20>>
        /\ coord[c].update_interval = 20
        /\ hist[c].start_interval = 5
        /\ coord[c].consecutive_failures >= 5
        /\ ~Falsy(coord[c].token)
        /\ ~Falsy(coord[c].kiln_id)
        /\ coord[c].data = SnapFiring

(***************************************************************************)
(* Two coordinators of one entry whose ticks interleave at their           *)
(* suspension points, after a discovery whose temporary coordinator        *)
(* logged in with a token of its own.                                      *)
(***************************************************************************)
MultiIds == {1, 2}

MultiMaxFailures == 3

DiscoveryToken == "tmp"

MultiLoginResponses ==
    {[status |-> 200, token |-> "abc"], [status |-> 200, token |-> "xyz"],
     [status |-> 401, token |-> None]}

MultiSettingsResponses ==
    {[status |-> 200, body |-> List(<<KilnA>>)], [status |-> 401, body |-> NotAList]}

MultiDataResponses ==
    {[status |-> 200, body |-> List(<<SnapFiring>>)], [status |-> 401, body |-> NotAList],
     [status |-> 404, body |-> NotAList]}

MultiInit ==
    /\ coord = [c \in MultiIds |-> Construct(DEFAULT_UPDATE_INTERVAL)]
    /\ hist = [c \in MultiIds |-> NewHistory(DEFAULT_UPDATE_INTERVAL)]
    /\ entry = [Registered(<<>>, AsList(MultiIds)) EXCEPT
                  !.temp = <<[Construct(DEFAULT_UPDATE_INTERVAL) EXCEPT
                                !.token = DiscoveryToken]>>]
    /\ shown = NothingShown

MultiTickStart(c) ==
    /\ coord[c].consecutive_failures < MultiMaxFailures
    /\ TickStart(c)

MultiNext ==
    \E c \in MultiIds :
        \/ MultiTickStart(c)
        \/ \E r \in MultiLoginResponses : LoginResponse(c, r)
        \/ \E r \in MultiSettingsResponses : SettingsResponse(c, r)
        \/ \E r \in MultiDataResponses : DataResponse(c, r)
        \/ Sleep(c)

MultiSpec == MultiInit /\ [][MultiNext]_vars

\* the fields of a coordinator that belong to it alone
Private(s) == <<s.token, Identity(s), s.consecutive_failures, s.update_interval>>

\* C17: a step of one coordinator leaves the token, kiln identity, failure
\* count and poll interval (and every other field) of every other coordinator
\* unchanged, whatever the interleaving; the token of discovery's temporary
\* coordinator is never held or sent by a per-kiln coordinator.
C17_CoordinatorsIsolated ==
    /\ [](\A c \in MultiIds :
            /\ coord[c].token # DiscoveryToken
            /\ \A i \in 1..Len(hist[c].requests) :
                  hist[c].requests[i].token # DiscoveryToken)
    /\ [][\A c, d \in MultiIds :
            (c # d /\ coord'[d].pc # coord[d].pc) =>
                /\ Private(coord'[c]) = Private(coord[c])
                /\ coord'[c] = coord[c]]_vars

\* one coordinator lost its token to a 401 and ended its tick in failure
\* while the tick of the other, which holds its token, is suspended
C17_Witness ==
    \E c, d \in MultiIds :
        /\ c # d
        /\ hist[c].outcome = "failed"
        /\ hist[c].last_fail.status = 401
        /\ coord[c].token = None
        /\ coord[c].consecutive_failures >= 3
        /\ coord[d].pc = "data"
        /\ coord[d].token = "xyz"
        /\ coord[d].consecutive_failures = 0
        /\ hist[d].attempts = 1

\* a snapshot that is absent or is the empty mapping
EmptySnapshot(data) == data = JNull \/ data = EmptyDict

\* C18: an entity is available exactly when the last tick succeeded and the
\* snapshot is not empty, an absent snapshot and an empty mapping both
\* counting as empty.
C18_AvailableIffNotEmpty ==
    \A c \in CoordIds :
        Available(coord[c]) <=>
            (coord[c].last_update_success /\ ~EmptySnapshot(coord[c].data))

(***************************************************************************)
(* The entities of one coordinator whose latest tick published a snapshot: *)
(* the host reads their values in any order.                               *)
(***************************************************************************)
\* values under "list": the key missing, null, and mappings whose leaves are
\* right, missing, of a text that is no number, or null
ListValues ==
    { JNull, EmptyDict,
      JDict("temperature" :> JNum("1900") @@ "kilnStatus" :> JStr("Firing")),
      JDict("temperature" :> JStr("1900.50") @@ "kilnStatus" :> JNum("7")),
      JDict("temperature" :> JStr("hot")),
      JDict("temperature" :> JNull @@ "kilnStatus" :> JNull) }

SettingsValues ==
    { JNum("3"),
      JDict("firmwareVersion" :> JStr("2.1") @@ "numFirings" :> JNum("42")
            @@ "numZones" :> JNum("3")),
      JDict("numFirings" :> JStr("2.1") @@ "numZones" :> JStr("03")) }

SensorSnapshots ==
    {EmptyDict}
    \cup { JDict("list" :> l) : l \in ListValues }
    \cup { JDict("settings" :> s) : s \in SettingsValues }
    \cup { JDict("list" :> l @@ "settings" :> s) : l \in ListValues, s \in SettingsValues }

\* a coordinator whose first tick logged in, fetched the settings of KilnA
\* and published the snapshot
Published(snapshot) ==
    Succeed([Construct(DEFAULT_UPDATE_INTERVAL) EXCEPT !.token = "abc",
                                                       !.kiln_id = KilnA.kiln_id,
                                                       !.serial_number = KilnA.serial_number,
                                                       !.kiln_name = GetName(KilnA)],
            snapshot)

SensorInit ==
    /\ \E snapshot \in SensorSnapshots :
          coord = [c \in CoordIds |-> Published(snapshot)]
    /\ hist = [c \in CoordIds |-> NewHistory(DEFAULT_UPDATE_INTERVAL)]
    /\ entry = Registered(<<>>, AsList(CoordIds))
    /\ shown = NothingShown

\* the host reads native_value of the entity sensor_key of coordinator c
ReadSensor(c, sensor_key) ==
    /\ shown' = [shown EXCEPT ![sensor_key] = NativeValue(sensor_key, coord[c].data)]
    /\ UNCHANGED <<coord, hist, entry>>

SensorNext == \E c \in CoordIds, k \in SensorKeys : ReadSensor(c, k)

SensorSpec == SensorInit /\ [][SensorNext]_vars

\* the snapshot has every segment of the path
RECURSIVE HasPath(_, _)
HasPath(j, path) ==
    \/ path = <<>>
    \/ /\ j.t = "dict"
       /\ Head(path) \in DOMAIN j.d
       /\ HasPath(j.d[Head(path)], Tail(path))

\* the value at the end of a path the snapshot has
RECURSIVE LeafOf(_, _)
LeafOf(j, path) == IF path = <<>> THEN j ELSE LeafOf(j.d[Head(path)], Tail(path))

\* the leaf value can be coerced to the declared type
Coercible(value_type, j) ==
    CASE value_type = "float" -> j.t = "num" \/ (j.t = "str" /\ IsFloatText(j.v))
      [] value_type = "int"   -> j.t = "num" \/ (j.t = "str" /\ IsIntText(j.v))
      [] OTHER                -> j.t # "null"

\* the observable has no value in the snapshot
Unavailable(sensor_key, data) ==
    LET path == SENSORS[sensor_key].data_path
    IN  \/ ~HasPath(data, path)
        \/ ~Coercible(SENSORS[sensor_key].value_type, LeafOf(data, path))

\* C19: for every observable and every snapshot, if a segment of the data
\* path is missing or the leaf cannot be coerced to the declared type, the
\* value read is None; reading a value raises no error and changes neither
\* the other values nor the coordinator.
C19_ProjectionTotal ==
    /\ [](\A c \in CoordIds, k \in SensorKeys :
            shown[k] # NotRead =>
                /\ shown[k].exc = NoExc
                /\ Unavailable(k, coord[c].data) => shown[k].result = JNull)
    /\ [][\A k \in SensorKeys :
            shown'[k] # shown[k] =>
                /\ coord' = coord
                /\ \A j \in SensorKeys \ {k} : shown'[j] = shown[j]]_vars

\* the requests of one kind that the latest call of async_setup_entry sent
RequestsOfKind(kind) == { i \in 1..Len(entry.requests) : entry.requests[i] = kind }

\* C20: a discovery that runs again after an earlier discovery obtained a
\* token sends no login request and, once authenticated, exactly one
\* settings request.
C20_RediscoveryReusesToken ==
    (entry.pc # "start" /\ ~Falsy(entry.prior_token)) =>
        /\ RequestsOfKind("login") = {}
        /\ entry.pc \in {"settings", "done"} =>
              Cardinality(RequestsOfKind("settings")) = 1

\* the words by which the text of a login error tells its class
LoginPhrases ==
    [ InvalidCredentials |-> "Invalid credentials",
      RateLimited        |-> "Rate limited",
      LoginFailed        |-> "Login failed with status",
      TokenMissing       |-> "Token not found",
      Timeout            |-> "Login request timed out" ]

\* the classes an error text reports
ClassesOf(msg) == { k \in DOMAIN LoginPhrases : Contains(msg, LoginPhrases[k]) }

\* the class of a login response
LoginClass(r) ==
    CASE r.status = TimedOut -> "Timeout"
      [] r.status = 401      -> "InvalidCredentials"
      [] r.status = 429      -> "RateLimited"
      [] r.status # 200      -> "LoginFailed"
      [] Falsy(r.token)      -> "TokenMissing"
      [] OTHER               -> "LoggedIn"

\* C21: a failed login reports the class of its response and no other one
\* (401 invalid credentials, 429 rate limited, another status that is not 200
\* login failed with that status, 200 without token, timeout), a login fails
\* exactly when its response is of such a class, and after a failed login no
\* token is held.
C21_LoginErrorsDistinct ==
    \A c \in CoordIds :
        LET h == hist[c]
        IN  /\ (h.last_fail.step = "login" /\ JustFailed(c)) =>
                  /\ h.last_fail.status = h.login_reply.status
                  /\ ClassesOf(h.last_fail.msg) = {LoginClass(h.login_reply)}
                  /\ LoginClass(h.login_reply) = "LoginFailed" =>
                        Contains(h.last_fail.msg, ToString(h.login_reply.status))
                  /\ Falsy(coord[c].token)
            /\ (h.login_reply # NoReply /\ LoginClass(h.login_reply) # "LoggedIn") =>
                  \/ h.last_fail.step = "login"
                  \/ h.outcome = "running" /\ h.last_fail = NoFail /\ h.logins = 0

\* a login answered 401 has just failed as invalid credentials
C21_Witness ==
    \E c \in CoordIds :
        /\ JustFailed(c)
        /\ hist[c].last_fail.step = "login"
        /\ hist[c].login_reply.status = 401
        /\ ClassesOf(hist[c].last_fail.msg) = {"InvalidCredentials"}
        /\ coord[c].token = None

\* an attempt of c that held a token fails in this step
HeldTokenAttemptFails(c) ==
    /\ coord[c].pc \in {"settings", "data"}
    /\ \/ coord'[c].pc = "sleep"
       \/ coord'[c].pc = "idle" /\ hist'[c].outcome = "failed"

\* the error texts that contain "500" or, in any case, "auth"
SuspectTexts ==
    { msg \in ErrorTexts : Contains(msg, "500") \/ Contains(Lower(msg), "auth") }

\* the failure is one after which the claim has the token cleared
TokenSuspect(fail) == fail.status = 401 \/ fail.msg \in SuspectTexts

\* C22: an attempt that fails while it holds a token loses the token if and
\* only if the failure is a 401 or its text contains "500" or, in any case,
\* "auth"; the attempt after such a failure logs in first and the attempt
\* after any other failure sends no login request, so that a tick whose
\* attempts all end in a 404 of the data request has at most one login.
C22_TokenClearedIffSuspect ==
    /\ [](\A c \in CoordIds :
            (hist[c].outcome = "failed" /\ hist[c].only_404) =>
                /\ hist[c].attempts = 3
                /\ hist[c].logins <= 1
                /\ ~Falsy(coord[c].token))
    /\ [][\A c \in CoordIds :
            /\ HeldTokenAttemptFails(c) =>
                  /\ ~Falsy(coord[c].token)
                  /\ Falsy(coord'[c].token) <=> TokenSuspect(hist'[c].last_fail)
                  /\ ~Falsy(coord'[c].token) => coord'[c].token = coord[c].token
            /\ (coord[c].pc = "sleep" /\ InAttempt(coord'[c])
                   /\ hist[c].last_fail.step \in {"settings", "data"}) =>
                  (coord'[c].pc = "login" <=> TokenSuspect(hist[c].last_fail))]_vars

\* a tick ended after three 404s of the data request, with the one login of
\* its first attempt and the token still held
C22_Witness ==
    \E c \in CoordIds :
        /\ hist[c].outcome = "failed"
        /\ hist[c].only_404
        /\ hist[c].last_fail.status = 404
        /\ hist[c].logins = 1
        /\ coord[c].token = "abc"

\* C23: a reconfiguration keeps consecutive_failure_count, so a tick that
\* starts with a count of 5 or more and fails ends with an interval of at
\* least 15 whatever the interval was reconfigured to; the count goes down
\* only in a successful tick, to 0.
C23_ReconfigurationKeepsCount ==
    [][\A c \in CoordIds :
          /\ coord'[c].pc = coord[c].pc =>
                coord'[c].consecutive_failures = coord[c].consecutive_failures
          /\ (hist[c].outcome = "running" /\ hist'[c].outcome = "failed"
                 /\ hist[c].start_failures >= 5) =>
                coord'[c].update_interval >= 15
          /\ coord'[c].consecutive_failures < coord[c].consecutive_failures =>
                /\ hist'[c].outcome = "success"
                /\ coord'[c].consecutive_failures = 0]_vars

\* with a count of 6 the interval, raised before, was reconfigured to 5, and
\* the next tick failed and raised it to 15
C23_Witness ==
    \E c \in CoordIds :
        /\ hist[c].outcome = "failed"
        /\ hist[c].start_failures >= 5
        /\ hist[c].start_interval = 5
        /\ ~hist[c].reconfigured
        /\ coord[c].update_interval = 15

\* the first refresh of a coordinator has succeeded
Refreshed(s) == s.last_update_success /\ s.data # JNull

====
